---- MODULE Spec2Model ----
(***************************************************************************)
(* State-machine model of static/script.js (the variant with navigation,   *)
(* analytics and archive, lines 269-987; the threshold variant, lines      *)
(* 1-267, shares handleFile's validation and has its own showSection).     *)
(*                                                                         *)
(* State is the module-level variables of the script plus the DOM          *)
(* properties its handlers write and a later handler or the user depends   *)
(* on: the display flag of each panel, the error text, button state, the   *)
(* navigation highlight.  Text nodes that are only written (summary cards, *)
(* progress text, file-info line) are not part of the state.               *)
(*                                                                         *)
(* JavaScript null is the empty sequence <<>> and a present value v is     *)
(* <<v>>; for strings, null and undefined are the strings "null" and       *)
(* "undefined".  File names are sequences of one-character strings so that *)
(* toLowerCase and endsWith are computed, not assumed.                     *)
(***************************************************************************)
EXTENDS Integers, Sequences, FiniteSets, TLC

VARIABLES
    selectedFile,       \* let selectedFile          (line 292)
    outputFilename,     \* let outputFilename        (line 293)
    asinFilename,       \* let asinFilename          (line 294)
    lastProcessedData,  \* let lastProcessedData     (line 295)
    analyticsData,      \* let analyticsData         (line 296)
    display,            \* style.display of the five primary-flow panels
    errorMessage,       \* errorMessage.textContent
    asinBtnShown,       \* downloadAsinBtn.style.display # 'none'
    archiveBtn,         \* archiveBtn: disabled flag and label
    timers,             \* pending setTimeout callbacks of archiveReport
    sectionDisplay,     \* style.display of the four .section-content containers
    navActive,          \* nav items carrying the class 'active'
    breadcrumb,         \* breadcrumb-current textContent
    analyticsView,      \* display of analytics-empty / analytics-content
    archiveView,        \* display of archive-empty / archive-content, and the list
    uploads,            \* POST /upload calls awaiting their response: the file sent
    archives,           \* POST /archive calls awaiting their response: the body sent
    lists,              \* number of GET /archive calls awaiting their response
    views,              \* GET /archive/{id} calls awaiting their response: the id
    deletes,            \* DELETE /archive/{id} calls awaiting their response: the id
    alertMessage,       \* text of the alert() dialog that is open, "" if none
    server,             \* the archives a storing server holds
    listFetches,        \* where the order of the GET /archive calls is
                        \* followed: the calls in issue order, each with
                        \* its answer once it arrived
    pickerOpen,         \* the native file chooser opened by fileInput.click()
    last,               \* the primary-flow handler that ran last, and how it ended
    called              \* which of the two view setters have been called so far

vars == <<selectedFile, outputFilename, asinFilename, lastProcessedData,
          analyticsData, display, errorMessage, asinBtnShown, archiveBtn,
          timers, sectionDisplay, navActive, breadcrumb, analyticsView,
          archiveView, uploads, archives, lists, views, deletes, alertMessage,
          server, listFetches, pickerOpen, last, called>>

-----------------------------------------------------------------------------
(* Bounds of the model *)

\* callbacks that may be outstanding at the same time: fetch() calls awaiting
\* their response and setTimeout callbacks awaiting their delay
MaxPending == 2

\* archives a storing server accepts
MaxStored == 2

\* GET /archive calls whose order is followed
MaxListFetches == 3

-----------------------------------------------------------------------------
(* Values *)

Null == <<>>
Some(v) == <<v>>

\* JavaScript truthiness of a string-or-null/undefined value
Truthy(s) == s \notin {"null", "undefined", ""}

\* the five primary-flow panels: .upload-section, #process-section,
\* #progress-section, #results-section, #error-section
Panels == {"upload", "process", "progress", "results", "error"}

\* the data-section names of the nav items / the section-<name> containers
Sections == {"upload", "analytics", "archive", "documentation"}

\* 50 * 1024 * 1024
MaxFileSize == 50 * 1024 * 1024

\* String.prototype.toLowerCase on one character of the names used here
LowerChar(c) ==
    CASE c = "R" -> "r"
      [] c = "C" -> "c"
      [] c = "S" -> "s"
      [] c = "V" -> "v"
      [] c = "T" -> "t"
      [] c = "X" -> "x"
      [] OTHER -> c

toLowerCase(s) == [i \in 1..Len(s) |-> LowerChar(s[i])]

endsWith(s, suffix) ==
    /\ Len(s) >= Len(suffix)
    /\ \A i \in 1..Len(suffix) : s[Len(s) - Len(suffix) + i] = suffix[i]

DotCsv == <<".", "c", "s", "v">>

\* the files the user may offer: name and size in bytes
Files ==
    { [name |-> <<"r", ".", "c", "s", "v">>, size |-> MaxFileSize],
      [name |-> <<"r", ".", "c", "s", "v">>, size |-> MaxFileSize + 1],
      [name |-> <<"R", ".", "C", "S", "V">>, size |-> MaxFileSize + 1],
      [name |-> <<"r", ".", "t", "x", "t">>, size |-> MaxFileSize],
      [name |-> <<"r", ".", "t", "x", "t">>, size |-> MaxFileSize + 1],
      [name |-> <<"r", "c", "s", "v">>, size |-> MaxFileSize],
      [name |-> <<"r", ".", "c", "s", "v", ".", "t", "x", "t">>,
       size |-> MaxFileSize] }

\* sectionName.charAt(0).toUpperCase() + sectionName.slice(1)
Capitalize(sectionName) ==
    CASE sectionName = "upload" -> "Upload"
      [] sectionName = "analytics" -> "Analytics"
      [] sectionName = "archive" -> "Archive"
      [] sectionName = "documentation" -> "Documentation"
      [] OTHER -> sectionName

-----------------------------------------------------------------------------
(* What the server may answer.  The server is not part of this code: every  *)
(* answer its contract allows is a possible input.                          *)

\* A JSON value that the code hands to parseFloat is a number or a string:
\* a number carries its value, a string its characters.  A missing property
\* reads as undefined.
Number(n) == [type |-> "number", value |-> n, chars |-> <<>>]
String(chars) == [type |-> "string", value |-> 0, chars |-> chars]
Undefined == [type |-> "undefined", value |-> 0, chars |-> <<>>]

\* the text a page element holds before any script writes it, and '0'
MarkupText == [kind |-> "markup", value |-> 0]
ZeroText == [kind |-> "text", value |-> 0]

Summary1 ==
    [original_rows |-> 10, asins_removed |-> 1, campaigns_processed |-> 2,
     total_spend |-> Number(50), total_sales |-> Number(200)]

Summary2 ==
    [original_rows |-> 7, asins_removed |-> 0, campaigns_processed |-> 1,
     total_spend |-> Number(50), total_sales |-> Number(0)]

\* An object whose property order matters (campaign_details, enumerated by
\* Object.entries) is the sequence of its entries [name, data] in enumeration
\* order.  A property name that is an array index ("7") is enumerated before
\* every other name, in ascending numeric order; the other names follow in the
\* order in which the properties were created.

\* the number a property name denotes if it is an array index, else -1
ArrayIndex(name) ==
    CASE name = "7" -> 7
      [] name = "12" -> 12
      [] OTHER -> -1

IsIndexEntry(entry) == ArrayIndex(entry.name) >= 0
IsNameEntry(entry) == ArrayIndex(entry.name) < 0

RECURSIVE InsertByIndex(_, _)
InsertByIndex(entry, sorted) ==
    IF sorted = <<>> THEN <<entry>>
    ELSE IF ArrayIndex(entry.name) < ArrayIndex(Head(sorted).name)
    THEN <<entry>> \o sorted
    ELSE <<Head(sorted)>> \o InsertByIndex(entry, Tail(sorted))

RECURSIVE SortByIndex(_)
SortByIndex(entries) ==
    IF entries = <<>> THEN <<>>
    ELSE InsertByIndex(Head(entries), SortByIndex(Tail(entries)))

\* JSON.parse / response.json() of an object whose members appear in the text
\* in the order `members`: the entries in the order the object enumerates them
JSONParseObject(members) ==
    SortByIndex(SelectSeq(members, IsIndexEntry))
        \o SelectSeq(members, IsNameEntry)

\* JSON.stringify of an object: its members in enumeration order
JSONStringifyObject(entries) == entries

\* JSON.stringify / JSON.parse of a snapshot: its campaignDetails object is
\* written and read member by member, the other properties are numbers,
\* strings and arrays of strings
JSONStringifySummary(snapshot) ==
    IF "campaignDetails" \in DOMAIN snapshot
    THEN [snapshot EXCEPT
            !.campaignDetails = JSONStringifyObject(snapshot.campaignDetails)]
    ELSE snapshot

JSONParseSummary(text) ==
    IF "campaignDetails" \in DOMAIN text
    THEN [text EXCEPT !.campaignDetails = JSONParseObject(text.campaignDetails)]
    ELSE text

\* campaign_details as the server writes it: "c2", "7", "c1"
Details1 ==
    JSONParseObject(
        << [name |-> "c2",
            data |-> [monograms |-> 1, bigrams |-> 1, trigrams |-> 2,
                      search_terms |-> 4, spend |-> 25, sales |-> 100]],
           [name |-> "7",
            data |-> [monograms |-> 3, bigrams |-> 0, trigrams |-> 1,
                      search_terms |-> 4, spend |-> 20, sales |-> 60]],
           [name |-> "c1",
            data |-> [monograms |-> 2, bigrams |-> 2, search_terms |-> 4,
                      spend |-> 5, sales |-> 40]] >>)

\* {} : the object with no keys, as a record and as a sequence of entries
EmptyMap == [c \in {} |-> 0]
EmptyObject == <<>>

\* POST /upload answers: {success, output_file?, asin_file?, summary?,
\* campaigns?, campaign_details?, error?}
UploadOk1 ==
    [success |-> TRUE, output_file |-> "out1.xlsx", asin_file |-> "asin1.xlsx",
     summary |-> Some(Summary1), campaigns |-> <<"c2", "7", "c1">>,
     campaign_details |-> Some(Details1), error |-> "undefined"]

UploadOk2 ==
    [success |-> TRUE, output_file |-> "out2.xlsx", asin_file |-> "undefined",
     summary |-> Some(Summary2), campaigns |-> <<"c3">>,
     campaign_details |-> Null, error |-> "undefined"]

UploadErr ==
    [success |-> FALSE, output_file |-> "undefined", asin_file |-> "undefined",
     summary |-> Null, campaigns |-> <<>>,
     campaign_details |-> Null, error |-> "Invalid CSV format"]

UploadErrNoMsg ==
    [success |-> FALSE, output_file |-> "undefined", asin_file |-> "undefined",
     summary |-> Null, campaigns |-> <<>>,
     campaign_details |-> Null, error |-> "undefined"]

UploadAnswers == {UploadOk1, UploadOk2, UploadErr, UploadErrNoMsg}

\* POST /archive answers: {success, error?}
ArchiveAnswers ==
    { [success |-> TRUE, error |-> "undefined"],
      [success |-> FALSE, error |-> "Archive is full"],
      [success |-> FALSE, error |-> "undefined"] }

\* one entry of GET /archive
Entry1 ==
    [id |-> "a1", filename |-> "out1.xlsx",
     originalFilename |-> <<"r", ".", "c", "s", "v">>]

\* GET /archive answers: {success, archives?}
ListAnswers ==
    { [success |-> TRUE, archives |-> Some(<<Entry1>>)],
      [success |-> TRUE, archives |-> Some(<<>>)],
      [success |-> FALSE, archives |-> Null] }

\* GET /archive/{id} answers: {success, archive?: {summary}}.  A stored
\* summary is a snapshot that archiveReport posted, or a summary that lacks
\* campaigns and campaignDetails.
ArchivedSummary1 ==
    [campaigns |-> <<"c2", "7", "c1">>, campaignDetails |-> Details1,
     filename |-> <<"r", ".", "c", "s", "v">>, processedAt |-> "now"]
    @@ Summary1

ArchivedSummary2 ==
    [campaigns_processed |-> 0, total_spend |-> Number(0),
     total_sales |-> Number(0)]

ViewAnswers ==
    { [success |-> TRUE, archive |-> Some([summary |-> ArchivedSummary1])],
      [success |-> TRUE, archive |-> Some([summary |-> ArchivedSummary2])],
      [success |-> TRUE, archive |-> Null],
      [success |-> FALSE, archive |-> Null] }

\* DELETE /archive/{id} answers: {success, error?}
DeleteAnswers ==
    { [success |-> TRUE, error |-> "undefined"],
      [success |-> FALSE, error |-> "Archive not found"],
      [success |-> FALSE, error |-> "undefined"] }

-----------------------------------------------------------------------------
(* Requests in flight *)

\* the sequence s without its i-th element
Without(s, i) == SubSeq(s, 1, i - 1) \o SubSeq(s, i + 1, Len(s))

Pending ==
    Len(uploads) + Len(archives) + lists + Len(views) + Len(deletes) + timers

CanFetch == Pending < MaxPending

-----------------------------------------------------------------------------
(* Groups of variables, for UNCHANGED *)

resultVars == <<outputFilename, asinFilename, lastProcessedData, analyticsData>>
navVars == <<sectionDisplay, navActive, breadcrumb>>
buttonVars == <<asinBtnShown, archiveBtn, timers>>
viewVars == <<analyticsView, archiveView>>
requestVars == <<uploads, archives, lists>>
archiveVars == <<views, deletes, alertMessage, server, listFetches>>

\* the script runs: no alert() dialog blocks it
Running == alertMessage = ""

-----------------------------------------------------------------------------
(* Initial state: the module-level variables are null, the page shows its   *)
(* markup defaults (upload panel of the upload section, empty placeholders) *)
(* and the DOMContentLoaded handler has called loadArchive().               *)

ArchiveBtnReady == [disabled |-> FALSE, label |-> "Archive Report"]
ArchiveBtnDone == [disabled |-> TRUE, label |-> "Archived!"]

InitPage ==
    /\ selectedFile = Null
    /\ outputFilename = "null"
    /\ asinFilename = "null"
    /\ lastProcessedData = Null
    /\ analyticsData = Null
    /\ display = [p \in Panels |-> p = "upload"]
    /\ errorMessage = ""
    /\ asinBtnShown = FALSE
    /\ archiveBtn = ArchiveBtnReady
    /\ timers = 0
    /\ sectionDisplay = [s \in Sections |-> s = "upload"]
    /\ navActive = {"upload"}
    /\ breadcrumb = "Upload"
    /\ analyticsView = [empty |-> TRUE, content |-> FALSE, acos |-> MarkupText,
                        table |-> <<>>, grid |-> <<>>]
    /\ archiveView = [empty |-> TRUE, content |-> FALSE, list |-> <<>>]
    /\ uploads = <<>>
    /\ archives = <<>>
    /\ lists = 1
    /\ views = <<>>
    /\ deletes = <<>>
    /\ alertMessage = ""
    /\ server = <<>>
    /\ pickerOpen = FALSE
    /\ last = [op |-> "", out |-> ""]
    /\ called = {}

\* the state when the DOMContentLoaded handler has run; the order of the
\* GET /archive calls is not followed
Init ==
    /\ InitPage
    /\ listFetches = <<>>

-----------------------------------------------------------------------------
(* View setters *)

\* showSection with the line that hides the process panel left out
showSectionKeepsProcess(d, section) ==
    LET hidden == [p \in DOMAIN d |-> IF p = "process" THEN d[p] ELSE FALSE] IN
    CASE section = "upload" -> [hidden EXCEPT !["upload"] = TRUE]
      [] section = "process" ->
            [hidden EXCEPT !["upload"] = TRUE, !["process"] = TRUE]
      [] section = "progress" -> [hidden EXCEPT !["progress"] = TRUE]
      [] section = "results" -> [hidden EXCEPT !["results"] = TRUE]
      [] section = "error" -> [hidden EXCEPT !["error"] = TRUE]
      [] OTHER -> hidden

\* showSection(section), lines 916-944: d is the display of the panels
\* before the call, the value is their display after it
showSection(d, section) ==
    LET hidden == [p \in DOMAIN d |-> FALSE] IN
    CASE section = "upload" -> [hidden EXCEPT !["upload"] = TRUE]
      [] section = "process" ->
            [hidden EXCEPT !["upload"] = TRUE, !["process"] = TRUE]
      [] section = "progress" -> [hidden EXCEPT !["progress"] = TRUE]
      [] section = "results" -> [hidden EXCEPT !["results"] = TRUE]
      [] section = "error" -> [hidden EXCEPT !["error"] = TRUE]
      [] OTHER -> hidden

\* a handler calls showSection(section)
callShowSection(section) ==
    /\ display' = showSection(display, section)
    /\ called' = called \cup {"showSection"}

\* showError(message), lines 950-953
showError(message) ==
    /\ errorMessage' = message
    /\ callShowSection("error")

\* value.toLocaleString(), formatCurrency(value) (lines 550-555) and the
\* literal '-' as the text of a table cell
toLocaleString(value) == [kind |-> "number", value |-> value]
formatCurrency(value) == [kind |-> "currency", value |-> value]
Dash == [kind |-> "text", value |-> 0]

\* data.key || 0 : a missing property reads as undefined
OrZero(data, key) == IF key \in DOMAIN data THEN data[key] ELSE 0

\* the rows that lines 836-869 append to the table body for the snapshot
\* `data`
CampaignBreakdownRows(data) ==
    IF \/ "campaignDetails" \notin DOMAIN data
       \/ Len(data.campaignDetails) = 0
    THEN IF "campaigns" \in DOMAIN data /\ Len(data.campaigns) > 0
         THEN [i \in 1..Len(data.campaigns) |->
                 [name |-> data.campaigns[i],
                  cells |-> <<Dash, Dash, Dash, Dash, Dash, Dash>>]]
         ELSE <<>>
    ELSE [i \in 1..Len(data.campaignDetails) |->
            LET entry == data.campaignDetails[i] IN
            [name |-> entry.name,
             cells |-> << toLocaleString(OrZero(entry.data, "monograms")),
                          toLocaleString(OrZero(entry.data, "bigrams")),
                          toLocaleString(OrZero(entry.data, "trigrams")),
                          toLocaleString(OrZero(entry.data, "search_terms")),
                          formatCurrency(OrZero(entry.data, "spend")),
                          formatCurrency(OrZero(entry.data, "sales")) >>]]

\* updateCampaignBreakdownTable without line 835: the rows are appended to
\* those the table body holds
updateCampaignBreakdownTableKeepsRows(data) ==
    analyticsView.table \o CampaignBreakdownRows(data)

\* updateCampaignBreakdownTable(), lines 833-870: the table body is emptied
\* (line 835) and holds the rows rendered from the snapshot `data`
updateCampaignBreakdownTable(data) ==
    <<>> \o CampaignBreakdownRows(data)

\* the value of a decimal digit, -1 for any other character
DigitValue(char) ==
    CASE char = "0" -> 0 [] char = "1" -> 1 [] char = "2" -> 2
      [] char = "3" -> 3 [] char = "4" -> 4 [] char = "5" -> 5
      [] char = "6" -> 6 [] char = "7" -> 7 [] char = "8" -> 8
      [] char = "9" -> 9 [] OTHER -> -1

\* the longest prefix of `chars` made of decimal digits
RECURSIVE DigitPrefix(_)
DigitPrefix(chars) ==
    IF chars = <<>> \/ DigitValue(Head(chars)) < 0 THEN <<>>
    ELSE <<Head(chars)>> \o DigitPrefix(Tail(chars))

\* the number written by a sequence of decimal digits
RECURSIVE DigitsValue(_)
DigitsValue(digits) ==
    IF digits = <<>> THEN 0
    ELSE 10 * DigitsValue(SubSeq(digits, 1, Len(digits) - 1))
            + DigitValue(digits[Len(digits)])

\* parseFloat(v), lines 817-818, for a number, undefined, and a string made
\* of an optional sign, digits and letters: the number written by the
\* longest numeric prefix, NaN when there is none
parseFloat(v) ==
    IF v.type = "number" THEN [nan |-> FALSE, value |-> v.value]
    ELSE IF v.type = "string"
    THEN LET negative == v.chars # <<>> /\ Head(v.chars) = "-"
             digits == DigitPrefix(IF negative THEN Tail(v.chars) ELSE v.chars)
         IN  IF digits = <<>> THEN [nan |-> TRUE, value |-> 0]
             ELSE [nan |-> FALSE,
                   value |-> IF negative THEN 0 - DigitsValue(digits)
                             ELSE DigitsValue(digits)]
    ELSE [nan |-> TRUE, value |-> 0]

\* parseFloat(data.key) || 0 : NaN and 0 are falsy
parseFloatOrZero(data, key) ==
    LET parsed == parseFloat(IF key \in DOMAIN data THEN data[key]
                             ELSE Undefined)
    IN  IF parsed.nan THEN 0 ELSE parsed.value

\* |n|
Abs(n) == IF n < 0 THEN 0 - n ELSE n

\* ((numerator / denominator) * 100).toFixed(1), denominator not 0: the
\* number of tenths nearest to the quotient, the larger magnitude on a tie
toFixed1(numerator, denominator) ==
    LET tenths == (2000 * Abs(numerator) + Abs(denominator))
                      \div (2 * Abs(denominator))
    IN  [kind |-> "fixed1",
         value |-> IF (numerator < 0) # (denominator < 0) THEN 0 - tenths
                   ELSE tenths]

\* the ACOS computed whenever the sales are not zero
acosUnlessZero(data) ==
    LET spend == parseFloatOrZero(data, "total_spend")
        sales == parseFloatOrZero(data, "total_sales")
    IN  IF sales # 0 THEN toFixed1(spend, sales) ELSE ZeroText

\* the ACOS of lines 816-819 rendered from the snapshot `data`; line 820
\* appends '%' to it
acos(data) ==
    LET spend == parseFloatOrZero(data, "total_spend")
        sales == parseFloatOrZero(data, "total_sales")
    IN  IF sales > 0 THEN toFixed1(spend, sales) ELSE ZeroText

\* one card of updateDistributionGrid, lines 884-912
DistributionCard(entry) ==
    LET monograms == OrZero(entry.data, "monograms")
        bigrams == OrZero(entry.data, "bigrams")
        trigrams == OrZero(entry.data, "trigrams")
        total == monograms + bigrams + trigrams
    IN  [name |-> entry.name,
         monograms |-> monograms, bigrams |-> bigrams, trigrams |-> trigrams,
         monoPercent |-> toFixed1(monograms, total),
         biPercent |-> toFixed1(bigrams, total),
         triPercent |-> toFixed1(trigrams, total)]

\* total === 0 answered true also when a count is missing
ZeroTotalOrMissing(entry) ==
    \/ {"monograms", "bigrams", "trigrams"} \ DOMAIN entry.data # {}
    \/ entry.data.monograms + entry.data.bigrams + entry.data.trigrams = 0

\* total === 0 of line 882
ZeroTotal(entry) ==
    OrZero(entry.data, "monograms") + OrZero(entry.data, "bigrams")
        + OrZero(entry.data, "trigrams") = 0

\* the cards appended for the entries `entries`, in their order
RECURSIVE DistributionCards(_)
DistributionCards(entries) ==
    IF entries = <<>> THEN <<>>
    ELSE IF ZeroTotal(Head(entries)) THEN DistributionCards(Tail(entries))
    ELSE <<DistributionCard(Head(entries))>>
            \o DistributionCards(Tail(entries))

\* updateDistributionGrid(), lines 872-914: the cards of the grid rendered
\* from the snapshot `data`
updateDistributionGrid(data) ==
    IF \/ "campaignDetails" \notin DOMAIN data
       \/ Len(data.campaignDetails) = 0
    THEN <<>>
    ELSE DistributionCards(data.campaignDetails)

\* updateAnalyticsSection without its test of analyticsData
updateAnalyticsSectionShowsContent ==
    analyticsView' =
        IF analyticsData' = Null
        THEN [analyticsView EXCEPT !.empty = FALSE, !.content = TRUE]
        ELSE [empty |-> FALSE, content |-> TRUE,
              acos |-> acos(analyticsData'[1]),
              table |-> updateCampaignBreakdownTable(analyticsData'[1]),
              grid |-> updateDistributionGrid(analyticsData'[1])]

\* updateAnalyticsSection(), lines 778-831: which of the placeholder and the
\* content view is displayed, the ACOS, the campaign-breakdown table and the
\* distribution grid.  It reads analyticsData as it is when it is called,
\* after the caller's assignments.
updateAnalyticsSection ==
    analyticsView' =
        IF analyticsData' = Null
        THEN [analyticsView EXCEPT !.empty = TRUE, !.content = FALSE]
        ELSE [empty |-> FALSE, content |-> TRUE,
              acos |-> acos(analyticsData'[1]),
              table |-> updateCampaignBreakdownTable(analyticsData'[1]),
              grid |-> updateDistributionGrid(analyticsData'[1])]

\* loadArchive() up to its first await, lines 642-644
loadArchive == lists' = lists + 1

\* navigateToSection with the loop that hides every section left out
navigateToSectionShowOnly(sectionName) ==
    /\ called' = called \cup {"navigateToSection"}
    /\ navActive' = {s \in Sections : s = sectionName}
    /\ breadcrumb' = Capitalize(sectionName)
    /\ sectionDisplay' = [sectionDisplay EXCEPT ![sectionName] = TRUE]
    /\ IF sectionName = "analytics"
       THEN updateAnalyticsSection
       ELSE UNCHANGED analyticsView
    /\ IF sectionName = "archive"
       THEN loadArchive
       ELSE UNCHANGED lists

\* navigateToSection refreshing the archive list for every section
navigateToSectionAlwaysLoads(sectionName) ==
    /\ called' = called \cup {"navigateToSection"}
    /\ navActive' = {s \in Sections : s = sectionName}
    /\ breadcrumb' = Capitalize(sectionName)
    /\ sectionDisplay' = [s \in Sections |-> s = sectionName]
    /\ IF sectionName = "analytics"
       THEN updateAnalyticsSection
       ELSE UNCHANGED analyticsView
    /\ loadArchive

\* navigateToSection(sectionName), lines 366-401
navigateToSection(sectionName) ==
    /\ called' = called \cup {"navigateToSection"}
    /\ navActive' = {s \in Sections : s = sectionName}
    /\ breadcrumb' = Capitalize(sectionName)
    /\ sectionDisplay' = [s \in Sections |-> s = sectionName]
    /\ IF sectionName = "analytics"
       THEN updateAnalyticsSection
       ELSE UNCHANGED analyticsView
    /\ IF sectionName = "archive"
       THEN loadArchive
       ELSE UNCHANGED lists

-----------------------------------------------------------------------------
(* Input acquisition *)

\* handleFile storing the file before it validates it
handleFileStoresFirst(file) ==
    /\ selectedFile' = Some(file)
    /\ IF ~endsWith(toLowerCase(file.name), DotCsv)
       THEN /\ showError("Please upload a CSV file.")
            /\ last' = [op |-> "handleFile", out |-> "not-csv"]
       ELSE IF file.size > MaxFileSize
       THEN /\ showError("File size exceeds 50MB limit.")
            /\ last' = [op |-> "handleFile", out |-> "too-big"]
       ELSE /\ display' = [display EXCEPT !["process"] = TRUE]
            /\ last' = [op |-> "handleFile", out |-> "selected"]
            /\ UNCHANGED <<errorMessage, called>>

\* handleFile rejecting a file of exactly the limit (>= for >)
handleFileSizeInclusive(file) ==
    IF ~endsWith(toLowerCase(file.name), DotCsv)
    THEN /\ showError("Please upload a CSV file.")
         /\ last' = [op |-> "handleFile", out |-> "not-csv"]
         /\ UNCHANGED selectedFile
    ELSE IF file.size >= MaxFileSize
    THEN /\ showError("File size exceeds 50MB limit.")
         /\ last' = [op |-> "handleFile", out |-> "too-big"]
         /\ UNCHANGED selectedFile
    ELSE /\ selectedFile' = Some(file)
         /\ display' = [display EXCEPT !["process"] = TRUE]
         /\ last' = [op |-> "handleFile", out |-> "selected"]
         /\ UNCHANGED <<errorMessage, called>>

\* handleFile(file), lines 436-460 (and 93-117)
handleFile(file) ==
    IF ~endsWith(toLowerCase(file.name), DotCsv)
    THEN /\ showError("Please upload a CSV file.")
         /\ last' = [op |-> "handleFile", out |-> "not-csv"]
         /\ UNCHANGED selectedFile
    ELSE IF file.size > MaxFileSize
    THEN /\ showError("File size exceeds 50MB limit.")
         /\ last' = [op |-> "handleFile", out |-> "too-big"]
         /\ UNCHANGED selectedFile
    ELSE /\ selectedFile' = Some(file)
         /\ display' = [display EXCEPT !["process"] = TRUE]
         /\ last' = [op |-> "handleFile", out |-> "selected"]
         /\ UNCHANGED <<errorMessage, called>>

-----------------------------------------------------------------------------
(* Submission pipeline *)

\* processFile with the return after the missing-file error left out
processFileNoReturn ==
    IF selectedFile = Null
    THEN /\ errorMessage' = "Please select a file first."
         /\ display' = showSection(showSection(display, "error"), "progress")
         /\ called' = called \cup {"showSection"}
         /\ uploads' = Append(uploads, [name |-> <<>>, size |-> 0])
         /\ last' = [op |-> "processFile", out |-> "no-file"]
    ELSE /\ callShowSection("progress")
         /\ uploads' = Append(uploads, selectedFile[1])
         /\ last' = [op |-> "processFile", out |-> "sent"]
         /\ UNCHANGED errorMessage

\* processFile() up to its first await, lines 470-490
processFile ==
    IF selectedFile = Null
    THEN /\ showError("Please select a file first.")
         /\ last' = [op |-> "processFile", out |-> "no-file"]
         /\ UNCHANGED uploads
    ELSE /\ callShowSection("progress")
         /\ uploads' = Append(uploads, selectedFile[1])
         /\ last' = [op |-> "processFile", out |-> "sent"]
         /\ UNCHANGED errorMessage

\* the object literal of lines 500-506; evaluating selectedFile.name throws
\* a TypeError when selectedFile is null
Snapshot(result) ==
    [campaigns |-> result.campaigns,
     campaignDetails |->
        IF result.campaign_details = Null THEN EmptyObject
        ELSE result.campaign_details[1],
     filename |-> selectedFile[1].name,
     processedAt |-> "now"]
    @@ (IF result.summary = Null THEN EmptyMap ELSE result.summary[1])

\* displayResults(result), lines 518-548; result.summary.original_rows
\* throws a TypeError when the answer has no summary
displayResultsThrows(result) == result.summary = Null

displayResults(result) ==
    /\ asinBtnShown' = Truthy(result.asin_file)
    /\ callShowSection("results")

NetworkError == "Network error. Please check your connection and try again."

\* processFile() after `await response.json()` returned result, lines 492-515
processFileResult(result) ==
    IF result.success
    THEN /\ outputFilename' = result.output_file
         /\ asinFilename' = result.asin_file
         /\ lastProcessedData' = Some(result)
         /\ IF selectedFile = Null
            THEN \* TypeError at line 504, caught at line 512
                 /\ showError(NetworkError)
                 /\ last' = [op |-> "upload-response", out |-> "success"]
                 /\ UNCHANGED <<analyticsData, asinBtnShown>>
            ELSE /\ analyticsData' = Some(Snapshot(result))
                 /\ IF displayResultsThrows(result)
                    THEN /\ showError(NetworkError)
                         /\ last' = [op |-> "upload-response", out |-> "success"]
                         /\ UNCHANGED asinBtnShown
                    ELSE /\ displayResults(result)
                         /\ last' = [op |-> "upload-response", out |-> "success"]
                         /\ UNCHANGED errorMessage
    ELSE /\ showError(IF Truthy(result.error) THEN result.error
                      ELSE "An error occurred while processing the file.")
         /\ last' = [op |-> "upload-response", out |-> "failure"]
         /\ UNCHANGED <<resultVars, asinBtnShown>>

\* processFile() when fetch or response.json() rejects, lines 512-515
processFileCatch ==
    /\ showError(NetworkError)
    /\ last' = [op |-> "upload-response", out |-> "rejected"]
    /\ UNCHANGED <<resultVars, asinBtnShown>>

-----------------------------------------------------------------------------
(* Downloads *)

\* downloadFile(), lines 557-570
downloadFile ==
    IF ~Truthy(outputFilename)
    THEN /\ showError("No file available for download.")
         /\ last' = [op |-> "downloadFile", out |-> "no-file"]
    ELSE /\ last' = [op |-> "downloadFile", out |-> "download"]
         /\ UNCHANGED <<errorMessage, display, called>>

\* downloadAsinFile(), lines 572-585
downloadAsinFile ==
    IF ~Truthy(asinFilename)
    THEN /\ showError("No ASIN file available for download.")
         /\ last' = [op |-> "downloadAsinFile", out |-> "no-file"]
    ELSE /\ last' = [op |-> "downloadAsinFile", out |-> "download"]
         /\ UNCHANGED <<errorMessage, display, called>>

-----------------------------------------------------------------------------
(* Archive client *)

Unknown == <<"U", "n", "k", "n", "o", "w", "n">>

\* archiveReport without its guard: a report is posted whatever the state
archiveReportUnguarded ==
    /\ archives' = Append(archives,
           [filename |-> outputFilename,
            originalFilename |->
               IF selectedFile # Null THEN selectedFile[1].name ELSE Unknown,
            summary |-> IF analyticsData # Null
                        THEN JSONStringifySummary(analyticsData[1])
                        ELSE EmptyMap,
            processedAt |-> "now"])
    /\ last' = [op |-> "archiveReport", out |-> "sent"]
    /\ UNCHANGED <<errorMessage, display, called>>

\* archiveReport() up to its first await, lines 587-605
archiveReport ==
    IF ~Truthy(outputFilename) \/ analyticsData = Null
    THEN /\ showError("No report available to archive.")
         /\ last' = [op |-> "archiveReport", out |-> "no-report"]
         /\ UNCHANGED archives
    ELSE /\ archives' = Append(archives,
                [filename |-> outputFilename,
                 originalFilename |->
                    IF selectedFile # Null THEN selectedFile[1].name ELSE Unknown,
                 summary |-> JSONStringifySummary(analyticsData[1]),
                 processedAt |-> "now"])
         /\ last' = [op |-> "archiveReport", out |-> "sent"]
         /\ UNCHANGED <<errorMessage, display, called>>

\* archiveReport() after `await response.json()` returned result, lines 607-635
archiveReportResult(result) ==
    IF result.success
    THEN /\ archiveBtn' = ArchiveBtnDone
         /\ timers' = timers + 1
         /\ last' = [op |-> "archive-response", out |-> "success"]
         /\ UNCHANGED <<errorMessage, display, called>>
    ELSE /\ showError(IF Truthy(result.error) THEN result.error
                      ELSE "Failed to archive report.")
         /\ last' = [op |-> "archive-response", out |-> "failure"]
         /\ UNCHANGED <<archiveBtn, timers>>

\* archiveReport() when fetch or response.json() rejects, lines 636-639
archiveReportCatch ==
    /\ showError("Failed to archive report. Please try again.")
    /\ last' = [op |-> "archive-response", out |-> "rejected"]
    /\ UNCHANGED <<archiveBtn, timers>>

\* the setTimeout callback, lines 621-632
archiveTimeout ==
    /\ archiveBtn' = ArchiveBtnReady
    /\ timers' = timers - 1

\* loadArchive() after `await response.json()` returned result, lines 647-708
loadArchiveResult(result) ==
    IF result.success /\ result.archives # Null /\ Len(result.archives[1]) > 0
    THEN archiveView' = [empty |-> FALSE, content |-> TRUE,
                         list |-> result.archives[1]]
    ELSE archiveView' = [archiveView EXCEPT !.empty = TRUE, !.content = FALSE]

\* loadArchive showing the placeholder when the fetch rejects
loadArchiveCatchShowsEmpty ==
    archiveView' = [archiveView EXCEPT !.empty = TRUE, !.content = FALSE]

\* loadArchive() when fetch or response.json() rejects, lines 709-711
loadArchiveCatch == UNCHANGED archiveView

\* viewArchiveAnalytics(archiveId) up to its first await, lines 734-736
viewArchiveAnalytics(archiveId) == views' = Append(views, archiveId)

\* viewArchiveAnalytics with the two defaults of lines 741-742 applied always
viewArchiveAnalyticsResultAlwaysDefaults(result) ==
    IF result.success /\ result.archive # Null
    THEN /\ analyticsData' =
                Some([campaigns |-> <<>>, campaignDetails |-> EmptyObject]
                        @@ result.archive[1].summary)
         /\ navigateToSection("analytics")
    ELSE UNCHANGED <<analyticsData, navVars, analyticsView, lists, called>>

\* viewArchiveAnalytics without the two defaults of lines 741-742
viewArchiveAnalyticsResultNoDefaults(result) ==
    IF result.success /\ result.archive # Null
    THEN /\ analyticsData' = Some(result.archive[1].summary)
         /\ navigateToSection("analytics")
    ELSE UNCHANGED <<analyticsData, navVars, analyticsView, lists, called>>

\* viewArchiveAnalytics() after `await response.json()` returned result,
\* lines 737-744: summary.campaigns || [] and summary.campaignDetails || {}
viewArchiveAnalyticsResult(result) ==
    IF result.success /\ result.archive # Null
    THEN /\ analyticsData' =
                Some(result.archive[1].summary
                        @@ [campaigns |-> <<>>, campaignDetails |-> EmptyObject])
         /\ navigateToSection("analytics")
    ELSE UNCHANGED <<analyticsData, navVars, analyticsView, lists, called>>

\* viewArchiveAnalytics() when fetch or response.json() rejects, lines 745-747
viewArchiveAnalyticsCatch ==
    UNCHANGED <<analyticsData, navVars, analyticsView, lists, called>>

\* deleteArchive sending the request whatever the user answers
deleteArchiveUnconfirmed(archiveId, confirmed) ==
    deletes' = Append(deletes, archiveId)

\* deleteArchive(archiveId) up to its first await, lines 750-758; confirmed is
\* the answer of the user to confirm()
deleteArchive(archiveId, confirmed) ==
    IF ~confirmed
    THEN UNCHANGED deletes
    ELSE deletes' = Append(deletes, archiveId)

\* deleteArchive() after `await response.json()` returned result, lines 760-766
deleteArchiveResult(result) ==
    IF result.success
    THEN /\ loadArchive
         /\ UNCHANGED alertMessage
    ELSE /\ alertMessage' = (IF Truthy(result.error) THEN result.error
                             ELSE "Failed to delete archive.")
         /\ UNCHANGED lists

\* deleteArchive() when fetch or response.json() rejects, lines 767-770
deleteArchiveCatch ==
    /\ alertMessage' = "Failed to delete archive. Please try again."
    /\ UNCHANGED lists

-----------------------------------------------------------------------------
(* Reset *)

\* resetForm(), lines 955-987
resetForm ==
    /\ selectedFile' = Null
    /\ outputFilename' = "null"
    /\ asinFilename' = "null"
    /\ archiveBtn' = ArchiveBtnReady
    /\ asinBtnShown' = FALSE
    /\ callShowSection("upload")
    /\ last' = [op |-> "resetForm", out |-> ""]

-----------------------------------------------------------------------------
(* The user interface.  A control can be used while it is rendered: the     *)
(* buttons of a panel while the panel is displayed inside the displayed     *)
(* upload section, the navigation items always.  While the native file      *)
(* chooser is open the user can only pick a file or cancel; responses and   *)
(* timers keep arriving.                                                    *)

\* a primary-flow panel is rendered: the panels are children of the
\* section-upload container
panelVisible(p) == display[p] /\ sectionDisplay["upload"]

UserIdle == ~pickerOpen

\* browseBtn / uploadBox click: fileInput.click(), lines 307-315
OpenPicker ==
    /\ Running
    /\ UserIdle
    /\ panelVisible("upload")
    /\ pickerOpen' = TRUE
    /\ UNCHANGED <<archiveVars,
                   selectedFile, resultVars, display, errorMessage, buttonVars,
                   navVars, viewVars, requestVars, last, called>>

\* fileInput 'change' with files[0] = file: handleFileSelect, lines 429-434
PickFileOf(file) ==
    /\ Running
    /\ pickerOpen
    /\ pickerOpen' = FALSE
    /\ handleFile(file)
    /\ UNCHANGED <<archiveVars,
                   resultVars, buttonVars, navVars, viewVars, requestVars>>

PickFile == \E file \in Files : PickFileOf(file)

\* the chooser is dismissed with no file: no 'change' event
CancelPicker ==
    /\ Running
    /\ pickerOpen
    /\ pickerOpen' = FALSE
    /\ UNCHANGED <<archiveVars,
                   selectedFile, resultVars, display, errorMessage, buttonVars,
                   navVars, viewVars, requestVars, last, called>>

\* uploadBox 'drop' with files[0] = file: handleDrop, lines 418-427
DropFileOf(file) ==
    /\ Running
    /\ UserIdle
    /\ panelVisible("upload")
    /\ handleFile(file)
    /\ UNCHANGED <<archiveVars,
                   resultVars, buttonVars, navVars, viewVars, requestVars,
                   pickerOpen>>

DropFile == \E file \in Files : DropFileOf(file)

\* processFile() is called
CallProcessFile ==
    /\ Running
    /\ selectedFile # Null => CanFetch
    /\ processFile
    /\ UNCHANGED <<archiveVars,
                   selectedFile, resultVars, buttonVars, navVars, viewVars,
                   archives, lists, pickerOpen>>

\* processBtn click, line 326
ClickProcess ==
    /\ UserIdle
    /\ panelVisible("process")
    /\ CallProcessFile

\* the answer `result` to the i-th POST /upload in flight arrives
UploadResponseOf(i, result) ==
    /\ Running
    /\ i \in 1..Len(uploads)
    /\ uploads' = Without(uploads, i)
    /\ processFileResult(result)
    /\ UNCHANGED <<archiveVars,
                   selectedFile, archiveBtn, timers, navVars, viewVars,
                   archives, lists, pickerOpen>>

UploadResponse ==
    \E i \in 1..Len(uploads) : \E result \in UploadAnswers :
        UploadResponseOf(i, result)

\* a POST /upload fails in transport or its body is not JSON
UploadRejected ==
    \E i \in 1..Len(uploads) :
        /\ Running
        /\ uploads' = Without(uploads, i)
        /\ processFileCatch
        /\ UNCHANGED <<archiveVars,
                       selectedFile, archiveBtn, timers, navVars, viewVars,
                       archives, lists, pickerOpen>>

\* downloadBtn click, line 329
ClickDownload ==
    /\ Running
    /\ UserIdle
    /\ panelVisible("results")
    /\ downloadFile
    /\ UNCHANGED <<archiveVars,
                   selectedFile, resultVars, buttonVars, navVars, viewVars,
                   requestVars, pickerOpen>>

\* downloadAsinBtn click, lines 332-334
ClickDownloadAsin ==
    /\ Running
    /\ UserIdle
    /\ panelVisible("results")
    /\ asinBtnShown
    /\ downloadAsinFile
    /\ UNCHANGED <<archiveVars,
                   selectedFile, resultVars, buttonVars, navVars, viewVars,
                   requestVars, pickerOpen>>

\* archiveReport() is called
CallArchiveReport ==
    /\ Running
    /\ (Truthy(outputFilename) /\ analyticsData # Null) => CanFetch
    /\ archiveReport
    /\ UNCHANGED <<archiveVars,
                   selectedFile, resultVars, buttonVars, navVars, viewVars,
                   uploads, lists, pickerOpen>>

\* archiveBtn click, line 337
ClickArchive ==
    /\ UserIdle
    /\ panelVisible("results")
    /\ ~archiveBtn.disabled
    /\ CallArchiveReport

\* the answer `result` to the i-th POST /archive in flight arrives
ArchiveResponseOf(i, result) ==
    /\ Running
    /\ i \in 1..Len(archives)
    /\ archives' = Without(archives, i)
    /\ archiveReportResult(result)
    /\ UNCHANGED <<archiveVars,
                   selectedFile, resultVars, asinBtnShown, navVars, viewVars,
                   uploads, lists, pickerOpen>>

ArchiveResponse ==
    \E i \in 1..Len(archives) : \E result \in ArchiveAnswers :
        ArchiveResponseOf(i, result)

\* a POST /archive fails in transport or its body is not JSON
ArchiveRejected ==
    \E i \in 1..Len(archives) :
        /\ Running
        /\ archives' = Without(archives, i)
        /\ archiveReportCatch
        /\ UNCHANGED <<archiveVars,
                       selectedFile, resultVars, asinBtnShown, navVars, viewVars,
                       uploads, lists, pickerOpen>>

\* the 2-second timer of archiveReport fires
ArchiveTimeout ==
    /\ Running
    /\ timers > 0
    /\ archiveTimeout
    /\ UNCHANGED <<archiveVars,
                   selectedFile, resultVars, display, errorMessage, asinBtnShown,
                   navVars, viewVars, requestVars, pickerOpen, last, called>>

\* resetForm() is called
CallResetForm ==
    /\ Running
    /\ resetForm
    /\ UNCHANGED <<archiveVars,
                   lastProcessedData, analyticsData, errorMessage, timers,
                   navVars, viewVars, requestVars, pickerOpen>>

\* resetBtn click, line 340
ClickReset ==
    /\ UserIdle
    /\ panelVisible("results")
    /\ CallResetForm

\* retryBtn click, line 343
ClickRetry ==
    /\ UserIdle
    /\ panelVisible("error")
    /\ CallResetForm

\* a call of navigateToSection that also resets the primary-flow panels
NavigateToResetsPanels(sectionName) ==
    /\ Running
    /\ sectionName = "archive" => CanFetch
    /\ display' = showSection(display, "upload")
    /\ UNCHANGED <<archiveVars, selectedFile, resultVars, errorMessage,
                   buttonVars, archiveView, uploads, archives, pickerOpen, last>>
    /\ navigateToSection(sectionName)

\* navigateToSection(sectionName) is called
NavigateTo(sectionName) ==
    /\ Running
    /\ sectionName = "archive" => CanFetch
    /\ UNCHANGED <<archiveVars, selectedFile, resultVars, display, errorMessage,
                   buttonVars, archiveView, uploads, archives, pickerOpen, last>>
    /\ navigateToSection(sectionName)

\* nav item click, lines 354-364 (and the CTA card, lines 346-351)
Navigate ==
    /\ UserIdle
    /\ \E sectionName \in Sections : NavigateTo(sectionName)

\* the answer `result` to a GET /archive arrives
ListResponseOf(result) ==
    /\ Running
    /\ lists > 0
    /\ lists' = lists - 1
    /\ loadArchiveResult(result)
    /\ UNCHANGED <<archiveVars,
                   selectedFile, resultVars, display, errorMessage, buttonVars,
                   navVars, analyticsView, uploads, archives, pickerOpen,
                   last, called>>

ListResponse == \E result \in ListAnswers : ListResponseOf(result)

\* a GET /archive fails in transport or its body is not JSON
ListRejected ==
    /\ Running
    /\ lists > 0
    /\ lists' = lists - 1
    /\ loadArchiveCatch
    /\ UNCHANGED <<archiveVars,
                   selectedFile, resultVars, display, errorMessage, buttonVars,
                   navVars, analyticsView, uploads, archives, pickerOpen,
                   last, called>>

\* the archive list is rendered with its buttons
ArchiveListVisible == sectionDisplay["archive"] /\ archiveView.content

\* the Analytics button of the k-th archive item, line 687
ClickView ==
    /\ Running
    /\ UserIdle
    /\ ArchiveListVisible
    /\ CanFetch
    /\ \E k \in 1..Len(archiveView.list) :
          viewArchiveAnalytics(archiveView.list[k].id)
    /\ UNCHANGED <<selectedFile, resultVars, display, errorMessage, buttonVars,
                   navVars, viewVars, requestVars, deletes, alertMessage, server,
                   listFetches,
                   pickerOpen, last, called>>

\* the answer `result` to the i-th GET /archive/{id} in flight arrives
ViewResponseOf(i, result) ==
    /\ Running
    /\ i \in 1..Len(views)
    /\ views' = Without(views, i)
    /\ viewArchiveAnalyticsResult(result)
    /\ UNCHANGED <<selectedFile, outputFilename, asinFilename, lastProcessedData,
                   display, errorMessage, buttonVars, archiveView, uploads,
                   archives, deletes, alertMessage, server, listFetches, pickerOpen, last>>

ViewResponse ==
    \E i \in 1..Len(views) : \E result \in ViewAnswers : ViewResponseOf(i, result)

\* a GET /archive/{id} fails in transport or its body is not JSON
ViewRejected ==
    \E i \in 1..Len(views) :
        /\ Running
        /\ views' = Without(views, i)
        /\ viewArchiveAnalyticsCatch
        /\ UNCHANGED <<selectedFile, outputFilename, asinFilename,
                       lastProcessedData, display, errorMessage, buttonVars,
                       archiveView, uploads, archives, deletes, alertMessage,
                       server, listFetches, pickerOpen, last>>

\* the Delete button of the k-th archive item, line 695, and the answer of
\* the user to the confirm() dialog
ClickDeleteOf(k, confirmed) ==
    /\ Running
    /\ UserIdle
    /\ ArchiveListVisible
    /\ k \in 1..Len(archiveView.list)
    /\ confirmed => CanFetch
    /\ deleteArchive(archiveView.list[k].id, confirmed)
    /\ UNCHANGED <<selectedFile, resultVars, display, errorMessage, buttonVars,
                   navVars, viewVars, requestVars, views, alertMessage, server,
                   listFetches,
                   pickerOpen, last, called>>

ClickDelete ==
    \E k \in 1..Len(archiveView.list) : \E confirmed \in BOOLEAN :
        ClickDeleteOf(k, confirmed)

\* the answer `result` to the i-th DELETE /archive/{id} in flight arrives
DeleteResponseOf(i, result) ==
    /\ Running
    /\ i \in 1..Len(deletes)
    /\ deletes' = Without(deletes, i)
    /\ deleteArchiveResult(result)
    /\ UNCHANGED <<selectedFile, resultVars, display, errorMessage, buttonVars,
                   navVars, viewVars, uploads, archives, views, server,
                   listFetches,
                   pickerOpen, last, called>>

DeleteResponse ==
    \E i \in 1..Len(deletes) : \E result \in DeleteAnswers :
        DeleteResponseOf(i, result)

\* a DELETE /archive/{id} fails in transport or its body is not JSON
DeleteRejected ==
    \E i \in 1..Len(deletes) :
        /\ Running
        /\ deletes' = Without(deletes, i)
        /\ deleteArchiveCatch
        /\ UNCHANGED <<selectedFile, resultVars, display, errorMessage,
                       buttonVars, navVars, viewVars, uploads, archives, views,
                       server, listFetches, pickerOpen, last, called>>

\* the alert() dialog is closed by the user: deleteArchive() returns
DismissAlert ==
    /\ alertMessage # ""
    /\ alertMessage' = ""
    /\ UNCHANGED <<selectedFile, resultVars, display, errorMessage, buttonVars,
                   navVars, viewVars, requestVars, views, deletes, server,
                   listFetches,
                   pickerOpen, last, called>>

Next ==
    \/ OpenPicker
    \/ PickFile
    \/ CancelPicker
    \/ DropFile
    \/ ClickProcess
    \/ UploadResponse
    \/ UploadRejected
    \/ ClickDownload
    \/ ClickDownloadAsin
    \/ ClickArchive
    \/ ArchiveResponse
    \/ ArchiveRejected
    \/ ArchiveTimeout
    \/ ClickReset
    \/ ClickRetry
    \/ Navigate
    \/ ListResponse
    \/ ListRejected
    \/ ClickView
    \/ ViewResponse
    \/ ViewRejected
    \/ ClickDelete
    \/ DeleteResponse
    \/ DeleteRejected
    \/ DismissAlert
    \/ DismissAlert

\* the page as a user drives it
Spec == Init /\ [][Next]_vars

-----------------------------------------------------------------------------
(* The primary-flow functions called directly, in any state and any order   *)
(* (they are globals of a classic script), with the answers of the requests *)
(* they issue.                                                              *)

\* handleFile(file) is called
CallHandleFile ==
    \E file \in Files :
        /\ Running
        /\ handleFile(file)
        /\ UNCHANGED <<archiveVars,
                       resultVars, buttonVars, navVars, viewVars, requestVars,
                       pickerOpen>>

\* showSection(section) is called
CallShowSectionOf(section) ==
    /\ Running
    /\ callShowSection(section)
    /\ last' = [op |-> "showSection", out |-> section]
    /\ UNCHANGED <<archiveVars,
                   selectedFile, resultVars, errorMessage, buttonVars, navVars,
                   viewVars, requestVars, pickerOpen>>

CallShowSection == \E section \in Panels : CallShowSectionOf(section)

NextCalls ==
    \/ CallHandleFile
    \/ CallShowSection
    \/ CallProcessFile
    \/ CallResetForm
    \/ UploadResponse
    \/ UploadRejected
    \/ ListResponse
    \/ ListRejected

SpecCalls == Init /\ [][NextCalls]_vars

-----------------------------------------------------------------------------
(* The two view setters called directly, in any state of a submission.      *)

\* navigateToSection(sectionName) is called
CallNavigateToSection == \E sectionName \in Sections : NavigateTo(sectionName)

NextSetters ==
    \/ CallShowSection
    \/ CallNavigateToSection
    \/ CallHandleFile
    \/ CallProcessFile
    \/ UploadResponse
    \/ ListResponse
    \/ ListRejected

SpecSetters == Init /\ [][NextSetters]_vars

-----------------------------------------------------------------------------
(* archiveReport called directly, in any state of a submission, with the    *)
(* answers of the requests issued.                                          *)

NextArchiveCalls ==
    \/ CallArchiveReport
    \/ ArchiveResponse
    \/ ArchiveRejected
    \/ ArchiveTimeout
    \/ CallHandleFile
    \/ CallProcessFile
    \/ UploadResponse
    \/ CallResetForm
    \/ ListResponse
    \/ ListRejected

SpecArchiveCalls == Init /\ [][NextArchiveCalls]_vars

-----------------------------------------------------------------------------
(* The page in front of a server that stores every posted archive unchanged *)
(* and answers the list and fetch-by-id requests from what it stored.       *)

\* the ids the server assigns, in order
ArchiveIds == <<"a1", "a2", "a3", "a4">>

\* the stored archives with the id `archiveId`
StoredAs(archiveId) ==
    {k \in 1..Len(server) : server[k].id = archiveId}

\* POST /archive: the server stores the body of the i-th request under a new
\* id and answers {success: true}
StoreArchiveOf(i) ==
    /\ Running
    /\ i \in 1..Len(archives)
    /\ Len(server) < MaxStored
    /\ server' = Append(server,
           [id |-> ArchiveIds[Len(server) + 1],
            filename |-> archives[i].filename,
            originalFilename |-> archives[i].originalFilename,
            processedAt |-> archives[i].processedAt,
            summary |-> archives[i].summary])
    /\ archives' = Without(archives, i)
    /\ archiveReportResult([success |-> TRUE, error |-> "undefined"])
    /\ UNCHANGED <<selectedFile, resultVars, asinBtnShown, navVars, viewVars,
                   uploads, lists, views, deletes, alertMessage, listFetches,
                   pickerOpen>>

StoreArchive == \E i \in 1..Len(archives) : StoreArchiveOf(i)

\* GET /archive: the server answers with the entries it holds
StoredListResponse ==
    ListResponseOf(
        [success |-> TRUE,
         archives |->
            Some([k \in 1..Len(server) |->
                    [id |-> server[k].id, filename |-> server[k].filename,
                     originalFilename |-> server[k].originalFilename]])])

\* GET /archive/{id}: the server answers with the archive it holds under the
\* id of the i-th request
StoredViewResponseOf(i) ==
    /\ i \in 1..Len(views)
    /\ StoredAs(views[i]) # {}
    /\ LET k == CHOOSE k \in StoredAs(views[i]) : TRUE IN
          ViewResponseOf(i,
              [success |-> TRUE,
               archive |->
                  Some([summary |-> JSONParseSummary(server[k].summary)])])

StoredViewResponse == \E i \in 1..Len(views) : StoredViewResponseOf(i)

NextStore ==
    \/ DropFile
    \/ ClickProcess
    \/ UploadResponse
    \/ ClickArchive
    \/ StoreArchive
    \/ ArchiveTimeout
    \/ ClickReset
    \/ ClickRetry
    \/ Navigate
    \/ StoredListResponse
    \/ ClickView
    \/ StoredViewResponse

SpecStore == Init /\ [][NextStore]_vars

-----------------------------------------------------------------------------
(* The analytics view rendered from the summaries a GET /archive/{id} may   *)
(* return: viewArchiveAnalytics hands whatever summary the server holds to  *)
(* updateAnalyticsSection.                                                  *)

\* campaign_details with a campaign whose counts are all 0, a campaign that
\* has no counts, a campaign with a single count and one with all three
Details2 ==
    JSONParseObject(
        << [name |-> "z",
            data |-> [monograms |-> 0, bigrams |-> 0, trigrams |-> 0,
                      search_terms |-> 0, spend |-> 0, sales |-> 0]],
           [name |-> "e", data |-> [spend |-> 5]],
           [name |-> "m", data |-> [monograms |-> 2, search_terms |-> 1]],
           [name |-> "c5",
            data |-> [monograms |-> 1, bigrams |-> 1, trigrams |-> 2]] >>)

RenderSpends ==
    { EmptyMap, [total_spend |-> Number(50)], [total_spend |-> Number(0)] }

RenderSales ==
    { EmptyMap,
      [total_sales |-> Number(0)],
      [total_sales |-> Number(200)],
      [total_sales |-> Number(3)],
      [total_sales |-> Number(0 - 200)],
      [total_sales |-> String(<<"a", "b", "c">>)],
      [total_sales |-> String(<<"2", "0", "0">>)] }

RenderDetails ==
    { EmptyMap,
      [campaignDetails |-> EmptyObject],
      [campaignDetails |-> Details1],
      [campaignDetails |-> Details2] }

RenderCampaigns ==
    { EmptyMap, [campaigns |-> <<>>], [campaigns |-> <<"c3", "c4">>] }

RenderSummaries ==
    { spend @@ sales @@ details @@ campaigns :
        spend \in RenderSpends, sales \in RenderSales,
        details \in RenderDetails, campaigns \in RenderCampaigns }

\* the i-th GET /archive/{id} is answered with the archive of `summary`
RenderViewResponseOf(i, summary) ==
    ViewResponseOf(i, [success |-> TRUE,
                       archive |-> Some([summary |-> summary])])

RenderViewResponse ==
    \E i \in 1..Len(views) : \E summary \in RenderSummaries :
        RenderViewResponseOf(i, summary)

NextRender ==
    \/ Navigate
    \/ ListResponse
    \/ ClickView
    \/ RenderViewResponse

SpecRender == Init /\ [][NextRender]_vars

-----------------------------------------------------------------------------
(* The GET /archive calls followed one by one: which call an answer belongs *)
(* to.  The answers arrive in any order.                                    *)

\* the DOMContentLoaded handler has run: its loadArchive() call is the first
\* GET /archive, in flight
InitLists ==
    /\ InitPage
    /\ listFetches = <<Null>>

\* navigateToSection(sectionName) is called from a nav item; the GET /archive
\* of navigateToSection('archive') is the latest call
ListsNavigateTo(sectionName) ==
    /\ Running
    /\ UserIdle
    /\ sectionName = "archive" =>
          (CanFetch /\ Len(listFetches) < MaxListFetches)
    /\ UNCHANGED <<views, deletes, alertMessage, server, selectedFile,
                   resultVars, display, errorMessage, buttonVars, archiveView,
                   uploads, archives, pickerOpen, last>>
    /\ navigateToSection(sectionName)
    /\ listFetches' = IF sectionName = "archive"
                      THEN Append(listFetches, Null)
                      ELSE listFetches

ListsNavigate == \E sectionName \in Sections : ListsNavigateTo(sectionName)

\* the answer `result` to the k-th GET /archive arrives
ListsResponseOf(k, result) ==
    /\ Running
    /\ k \in 1..Len(listFetches)
    /\ listFetches[k] = Null
    /\ listFetches' = [listFetches EXCEPT ![k] = Some(result)]
    /\ lists' = lists - 1
    /\ loadArchiveResult(result)
    /\ UNCHANGED <<views, deletes, alertMessage, server, selectedFile,
                   resultVars, display, errorMessage, buttonVars, navVars,
                   analyticsView, uploads, archives, pickerOpen, last, called>>

ListsResponse ==
    \E k \in 1..Len(listFetches) : \E result \in ListAnswers :
        ListsResponseOf(k, result)

NextLists ==
    \/ ListsNavigate
    \/ ListsResponse

SpecLists == InitLists /\ [][NextLists]_vars

-----------------------------------------------------------------------------
(* Vocabulary of the properties *)

\* the primary-flow panels whose display flag is set in d
Displayed(d) == {p \in Panels : d[p]}

\* names that end in '.csv' when compared case-insensitively, by enumeration
CsvNames == { <<"r", ".", "c", "s", "v">>, <<"R", ".", "C", "S", "V">> }

\* a step in which handleFile(file) runs
HandleFileStep(file) == PickFileOf(file) \/ DropFileOf(file)

\* the outcomes of the tracked handlers that are error paths
ErrorPaths ==
    { [op |-> "handleFile", out |-> "not-csv"],
      [op |-> "handleFile", out |-> "too-big"],
      [op |-> "processFile", out |-> "no-file"],
      [op |-> "upload-response", out |-> "failure"],
      [op |-> "upload-response", out |-> "rejected"],
      [op |-> "archive-response", out |-> "failure"],
      [op |-> "archive-response", out |-> "rejected"] }

\* the top-level section the navigation shows as current
ActiveSections == navActive

-----------------------------------------------------------------------------
(* C1 - C4: the outcome of a submission and of a reset *)

\* C1: after a success:true answer to POST /upload exactly the results panel
\* is displayed, and after any error path exactly the error panel is displayed.
C1_PanelAfterOutcome ==
    /\ (last = [op |-> "upload-response", out |-> "success"])
            => Displayed(display) = {"results"}
    /\ last \in ErrorPaths => Displayed(display) = {"error"}

\* C2: a completion of processFile either succeeds in full (results panel,
\* outputFilename, asinFilename and analyticsData taken from the answer) or
\* shows an error and leaves selectedFile, outputFilename, asinFilename,
\* lastProcessedData and analyticsData as they were.
C2_NoPartialFailure ==
    [][\A i \in 1..Len(uploads) : \A result \in UploadAnswers :
          UploadResponseOf(i, result) =>
             \/ /\ Displayed(display') = {"results"}
                /\ outputFilename' = result.output_file
                /\ asinFilename' = result.asin_file
                /\ analyticsData' # Null
                /\ analyticsData'[1].campaigns = result.campaigns
             \/ /\ Displayed(display') = {"error"}
                /\ UNCHANGED <<selectedFile, outputFilename, asinFilename,
                               lastProcessedData, analyticsData>>]_vars

\* C3: once the error panel is displayed it stays the only displayed panel,
\* and no POST /upload is issued, until resetForm runs; no answer of a request
\* in flight replaces it.
C3_ErrorIsTerminal ==
    [][display["error"] =>
          \/ ClickReset \/ ClickRetry
          \/ /\ Displayed(display') = {"error"}
             /\ Len(uploads') <= Len(uploads)]_vars

\* C4: after resetForm the selected file, the processing result and the
\* analytics snapshot are all null and exactly the upload panel is displayed.
C4_ResetClearsEverything ==
    last.op = "resetForm" =>
        /\ selectedFile = Null
        /\ outputFilename = "null"
        /\ asinFilename = "null"
        /\ lastProcessedData = Null
        /\ analyticsData = Null
        /\ Displayed(display) = {"upload"}

-----------------------------------------------------------------------------
(* C5 - C7: validation of the input *)

\* C5: handleFile rejects every file whose name does not end in '.csv'
\* (compared case-insensitively) with 'Please upload a CSV file.', issues no
\* request and leaves selectedFile as it was.
C5_NonCsvRejected ==
    [][\A file \in Files :
          (file.name \notin CsvNames /\ HandleFileStep(file)) =>
             /\ errorMessage' = "Please upload a CSV file."
             /\ Displayed(display') = {"error"}
             /\ selectedFile' = selectedFile
             /\ UNCHANGED requestVars]_vars

\* a non-CSV file was rejected while a file was selected
C5_Witness ==
    /\ last = [op |-> "handleFile", out |-> "not-csv"]
    /\ errorMessage = "Please upload a CSV file."
    /\ selectedFile # Null

\* C6: handleFile rejects a '.csv' file with the size-limit message and leaves
\* selectedFile as it was exactly when the file is larger than 52,428,800
\* bytes; a file of exactly 52,428,800 bytes becomes selectedFile.
C6_SizeLimit ==
    [][\A file \in Files :
          (file.name \in CsvNames /\ HandleFileStep(file)) =>
             IF file.size > 52428800
             THEN /\ errorMessage' = "File size exceeds 50MB limit."
                  /\ Displayed(display') = {"error"}
                  /\ selectedFile' = selectedFile
             ELSE /\ selectedFile' = Some(file)
                  /\ errorMessage' = errorMessage]_vars

\* a larger file was rejected while a file of exactly the limit was selected
C6_Witness ==
    /\ last = [op |-> "handleFile", out |-> "too-big"]
    /\ errorMessage = "File size exceeds 50MB limit."
    /\ selectedFile # Null
    /\ selectedFile[1].size = 52428800

\* C7: processFile called while no file is selected reports 'Please select a
\* file first.', issues no POST /upload and does not show the progress panel.
C7_NoFileNoUpload ==
    [][(selectedFile = Null /\ CallProcessFile) =>
          /\ errorMessage' = "Please select a file first."
          /\ UNCHANGED requestVars
          /\ Displayed(display') = {"error"}]_vars

\* processFile ran with no file selected
C7_Witness ==
    /\ last = [op |-> "processFile", out |-> "no-file"]
    /\ errorMessage = "Please select a file first."
    /\ selectedFile = Null
    /\ uploads = <<>>

-----------------------------------------------------------------------------
(* C8 - C10: the two view setters *)

LegalConfigurations ==
    { {"upload"}, {"upload", "process"}, {"progress"}, {"results"}, {"error"} }

\* C8: once showSection and navigateToSection have both been called, the
\* displayed primary-flow panels are one of the five legal configurations and
\* exactly one top-level section is active.
C8_LegalConfiguration ==
    called = {"showSection", "navigateToSection"} =>
        /\ Displayed(display) \in LegalConfigurations
        /\ Cardinality(ActiveSections) = 1
        /\ Cardinality({s \in Sections : sectionDisplay[s]}) = 1

\* C9: while the active top-level section is not 'upload', no primary-flow
\* panel is visible, whatever a late answer has done to the panels.
C9_PanelsOnlyInUpload ==
    ActiveSections # {"upload"} => \A p \in Panels : ~panelVisible(p)

\* the error panel was set by the answer to an upload while the analytics
\* section is the active one
C9_Witness ==
    /\ ActiveSections = {"analytics"}
    /\ last.op = "upload-response"
    /\ display["error"]

\* the panels a call showSection(name) is to display
ImpliedPanels(name) ==
    IF name = "process" THEN {"upload", "process"} ELSE {name}

\* C10: showSection(name) leaves displayed exactly the panels implied by
\* name, whichever panels were displayed before.
C10_ShowSectionExact ==
    last.op = "showSection" => Displayed(display) = ImpliedPanels(last.out)

\* showSection('process') was called while the results panel was displayed
C10_Witness ==
    /\ last = [op |-> "showSection", out |-> "process"]
    /\ Displayed(display) = {"upload", "process"}
    /\ Truthy(outputFilename)

-----------------------------------------------------------------------------
(* C11 - C13: navigation *)

\* C11: a call of showSection leaves the section containers, the nav
\* highlight and the breadcrumb unchanged, and a call of navigateToSection
\* leaves the display of the five panels and selectedFile, outputFilename and
\* asinFilename unchanged.
C11_SettersIndependent ==
    [][/\ (\E section \in Panels : CallShowSectionOf(section)) =>
              UNCHANGED <<sectionDisplay, navActive, breadcrumb>>
       /\ (\E sectionName \in Sections : NavigateTo(sectionName)) =>
              UNCHANGED <<display, selectedFile, outputFilename,
                          asinFilename>>]_vars

\* both setters have been called after a submission succeeded: the results
\* panel is displayed and the analytics section is the active one
C11_Witness ==
    /\ called = {"showSection", "navigateToSection"}
    /\ ActiveSections = {"analytics"}
    /\ sectionDisplay["analytics"]
    /\ Displayed(display) = {"results"}
    /\ selectedFile # Null
    /\ Truthy(outputFilename)

\* C12: a call navigateToSection('archive') issues exactly one GET /archive,
\* and a call with any other section name issues none.
C12_OneListFetch ==
    [][\A sectionName \in Sections :
          NavigateTo(sectionName) =>
             /\ lists' = lists + (IF sectionName = "archive" THEN 1 ELSE 0)
             /\ UNCHANGED <<uploads, archives, views, deletes>>]_vars

\* the archive section is the active one and the list fetch of the page load
\* and the one of the navigation are in flight
C12_Witness ==
    /\ ActiveSections = {"archive"}
    /\ "navigateToSection" \in called
    /\ lists = 2

\* C13: navigateToSection('analytics') shows the placeholder and hides the
\* content view when analyticsData is null, and shows the content view and
\* hides the placeholder when it is not.
C13_AnalyticsPlaceholder ==
    [][NavigateTo("analytics") =>
          /\ analyticsView'.empty = (analyticsData = Null)
          /\ analyticsView'.content = (analyticsData # Null)]_vars

\* the analytics section was opened with a snapshot present
C13_Witness ==
    /\ ActiveSections = {"analytics"}
    /\ analyticsData # Null
    /\ analyticsView.content
    /\ ~analyticsView.empty

-----------------------------------------------------------------------------
(* C14 - C15: archive creation *)

\* C14: archiveReport called while outputFilename is null or analyticsData is
\* null reports an error on the error panel and issues no POST /archive.
C14_NoReportNoArchive ==
    [][((~Truthy(outputFilename) \/ analyticsData = Null)
            /\ CallArchiveReport) =>
          /\ errorMessage' = "No report available to archive."
          /\ Displayed(display') = {"error"}
          /\ UNCHANGED <<requestVars, views, deletes>>]_vars

\* archiveReport ran after resetForm had cleared outputFilename, with the
\* snapshot of the previous submission still present
C14_Witness ==
    /\ last = [op |-> "archiveReport", out |-> "no-report"]
    /\ errorMessage = "No report available to archive."
    /\ ~Truthy(outputFilename)
    /\ analyticsData # Null
    /\ archives = <<>>

\* C15: while a POST /archive for a report is in flight, or while the archive
\* button is disabled after its success, no second POST /archive for the same
\* report is issued; a successful answer leaves the button disabled with the
\* label 'Archived!'.
C15_NoDuplicateArchive ==
    [][/\ \A i \in 1..Len(archives) :
             ArchiveResponseOf(i, [success |-> TRUE, error |-> "undefined"])
                 => archiveBtn' = ArchiveBtnDone
       /\ ClickArchive =>
             \A i \in 1..Len(archives) :
                 archives[i].filename # outputFilename]_vars

-----------------------------------------------------------------------------
(* C16 - C18: the archive list and its items *)

\* the summary of an archive with campaigns and campaignDetails empty when
\* the summary has none
WithEmptyDefaults(summary) ==
    [key \in DOMAIN summary \cup {"campaigns", "campaignDetails"} |->
        IF key \in DOMAIN summary THEN summary[key] ELSE <<>>]

\* C16: the answer to viewArchiveAnalytics with success:true and an archive
\* makes analyticsData that archive's summary, with campaigns and
\* campaignDetails empty when missing, and makes analytics the active section;
\* any other answer and a failed fetch leave analyticsData and the active
\* section unchanged.
C16_ViewArchive ==
    [][/\ \A i \in 1..Len(views) : \A result \in ViewAnswers :
             ViewResponseOf(i, result) =>
                IF result.success /\ result.archive # Null
                THEN /\ analyticsData' =
                           Some(WithEmptyDefaults(result.archive[1].summary))
                     /\ navActive' = {"analytics"}
                     /\ sectionDisplay' = [s \in Sections |-> s = "analytics"]
                ELSE UNCHANGED <<analyticsData, navActive, sectionDisplay>>
       /\ ViewRejected =>
             UNCHANGED <<analyticsData, navActive, sectionDisplay>>]_vars

\* an archive whose summary has neither campaigns nor campaignDetails was
\* fetched: analytics is the active section and the snapshot has the defaults
C16_Witness ==
    /\ ActiveSections = {"analytics"}
    /\ analyticsData = Some(WithEmptyDefaults(ArchivedSummary2))
    /\ analyticsView.content

\* C17: deleteArchive issues its DELETE request only when the user confirms,
\* and changes nothing when the user declines; a success:true answer issues
\* exactly one GET /archive; a success:false answer and a transport failure
\* show an alert, issue no GET /archive and leave the error panel alone.
C17_DeleteArchive ==
    [][/\ \A k \in 1..Len(archiveView.list) :
             /\ ClickDeleteOf(k, FALSE) => UNCHANGED vars
             /\ ClickDeleteOf(k, TRUE) =>
                   /\ deletes' = Append(deletes, archiveView.list[k].id)
                   /\ UNCHANGED <<uploads, archives, lists, views>>
       /\ Len(deletes') > Len(deletes) =>
             \E k \in 1..Len(archiveView.list) : ClickDeleteOf(k, TRUE)
       /\ \A i \in 1..Len(deletes) : \A result \in DeleteAnswers :
             DeleteResponseOf(i, result) =>
                /\ lists' = lists + (IF result.success THEN 1 ELSE 0)
                /\ (alertMessage' # "") = ~result.success
                /\ UNCHANGED <<display, errorMessage>>
       /\ DeleteRejected =>
             /\ lists' = lists
             /\ alertMessage' # ""
             /\ UNCHANGED <<display, errorMessage>>]_vars

\* a delete was refused by the server: the alert is open, no list refresh is
\* in flight and the error panel is not displayed
C17_Witness ==
    /\ alertMessage = "Failed to delete archive."
    /\ lists = 0
    /\ deletes = <<>>
    /\ ~display["error"]

\* C18: an answer to loadArchive that is unsuccessful or has no entries shows
\* the placeholder and hides the list, an answer with entries shows the list
\* and hides the placeholder, and a failed fetch leaves the placeholder, the
\* list and everything else as they were.
C18_LoadArchive ==
    [][/\ \A result \in ListAnswers :
             ListResponseOf(result) =>
                IF /\ result.success
                   /\ result.archives # Null
                   /\ Len(result.archives[1]) > 0
                THEN /\ archiveView'.content /\ ~archiveView'.empty
                     /\ archiveView'.list = result.archives[1]
                ELSE archiveView'.empty /\ ~archiveView'.content
       /\ ListRejected =>
             UNCHANGED <<archiveView, display, errorMessage, alertMessage,
                         navVars>>]_vars

\* a list that was shown has been hidden by a later unsuccessful answer
C18_Witness ==
    /\ archiveView.empty
    /\ ~archiveView.content
    /\ Len(archiveView.list) > 0

-----------------------------------------------------------------------------
(* C19 - C20: round trip and error reporting *)

\* C19: in front of a server that stores the posted summary unchanged,
\* archiveReport posts the current snapshot, and the campaign-breakdown table
\* rendered when viewArchiveAnalytics has fetched the archive has the rows,
\* the order and the cell values of the table rendered from the snapshot
\* that was posted.
C19_RoundTrip ==
    [][/\ (ClickArchive /\ Len(archives') > Len(archives)) =>
             /\ analyticsData # Null
             /\ updateCampaignBreakdownTable(
                    archives'[Len(archives')].summary)
                  = updateCampaignBreakdownTable(analyticsData[1])
       /\ \A i \in 1..Len(views) :
             StoredViewResponseOf(i) =>
                \A k \in StoredAs(views[i]) :
                   analyticsView'.table =
                      updateCampaignBreakdownTable(server[k].summary)]_vars

\* the archive of a first report was fetched after a second report had been
\* processed: the table shows the three campaigns of the first report, "7"
\* first
C19_Witness ==
    /\ Len(server) > 0
    /\ lastProcessedData = Some(UploadOk2)
    /\ analyticsData # Null
    /\ analyticsData[1].campaigns = <<"c2", "7", "c1">>
    /\ ActiveSections = {"analytics"}
    /\ Len(analyticsView.table) = 3
    /\ analyticsView.table[1].name = "7"
    /\ analyticsView.table = updateCampaignBreakdownTable(server[1].summary)

\* C20: every request other than a delete that fails in transport (POST
\* /upload, POST /archive, GET /archive, GET /archive/{id}) ends with the
\* error panel displayed and a non-empty message in it; a delete that fails
\* opens an alert and leaves the panels and the message alone.
C20_FailuresOnErrorPanel ==
    [][/\ (UploadRejected \/ ArchiveRejected \/ ListRejected \/ ViewRejected) =>
             /\ display'["error"]
             /\ errorMessage' # ""
       /\ DeleteRejected =>
             /\ alertMessage' # ""
             /\ UNCHANGED <<display, errorMessage>>]_vars

-----------------------------------------------------------------------------
(* C21 - C28: requests in flight, rendering of the analytics view, and the *)
(* data the requests carry                                                  *)

\* C21: in every state reachable through the page at most one POST /upload
\* is in flight and at most one archive request (list, create, fetch-by-id
\* or delete) is in flight.
C21_OneRequestInFlight ==
    /\ Len(uploads) <= 1
    /\ Len(archives) + lists + Len(views) + Len(deletes) <= 1

\* C22 as stated: the ACOS shown by updateAnalyticsSection is '0' whenever
\* total_sales is zero, absent or non-numeric, and otherwise is the number of
\* tenths nearest to spend / sales * 100 (each followed by '%').
C22_AcosAsStated ==
    (analyticsData # Null /\ analyticsView.content) =>
        LET data == analyticsData[1]
            spend == parseFloatOrZero(data, "total_spend")
            sales == parseFloatOrZero(data, "total_sales")
        IN  IF sales = 0
            THEN analyticsView.acos = ZeroText
            ELSE /\ analyticsView.acos.kind = "fixed1"
                 /\ 2 * Abs(analyticsView.acos.value * sales - 1000 * spend)
                       <= Abs(sales)

\* C22: the ACOS shown by updateAnalyticsSection is '0' whenever total_sales
\* is zero, negative, absent or non-numeric, and otherwise is the number of
\* tenths nearest to spend / sales * 100 (each followed by '%'): spend 50
\* and sales 200 give 25.0, spend 50 and sales 0 give '0'.
C22_Acos ==
    (analyticsData # Null /\ analyticsView.content) =>
        LET data == analyticsData[1]
            spend == parseFloatOrZero(data, "total_spend")
            sales == parseFloatOrZero(data, "total_sales")
        IN  /\ IF sales <= 0
               THEN analyticsView.acos = ZeroText
               ELSE /\ analyticsView.acos.kind = "fixed1"
                    /\ 2 * Abs(analyticsView.acos.value * sales - 1000 * spend)
                          <= sales
            /\ (spend = 50 /\ sales = 200) =>
                  analyticsView.acos = [kind |-> "fixed1", value |-> 250]

\* the analytics view shows the archive with spend 50 and sales 200: 25.0
C22_Witness ==
    /\ analyticsData # Null
    /\ analyticsView.content
    /\ "total_spend" \in DOMAIN analyticsData[1]
    /\ "total_sales" \in DOMAIN analyticsData[1]
    /\ analyticsData[1].total_spend = Number(50)
    /\ analyticsData[1].total_sales = Number(200)
    /\ analyticsView.acos = [kind |-> "fixed1", value |-> 250]

\* C23: the distribution grid has no card for a campaign whose monograms,
\* bigrams and trigrams (a missing count read as 0) add up to 0 and exactly
\* one card, in the order of campaignDetails, for every other campaign; on
\* the card of a campaign with monograms 1, bigrams 1 and trigrams 2 the
\* three percentages add up to 100.0.
C23_DistributionGrid ==
    (analyticsData # Null /\ analyticsView.content) =>
        LET data == analyticsData[1]
            entries == IF "campaignDetails" \in DOMAIN data
                       THEN data.campaignDetails ELSE <<>>
            Count(entry, key) ==
                IF key \in DOMAIN entry.data THEN entry.data[key] ELSE 0
            Total(entry) ==
                Count(entry, "monograms") + Count(entry, "bigrams")
                    + Count(entry, "trigrams")
            shown == {i \in 1..Len(entries) : Total(entries[i]) # 0}
            grid == analyticsView.grid
        IN  /\ Len(grid) = Cardinality(shown)
            /\ \A i \in shown :
                  \E j \in 1..Len(grid) : grid[j].name = entries[i].name
            /\ \A j, k \in 1..Len(grid) :
                  j < k =>
                     \E i, l \in shown :
                        /\ i < l
                        /\ grid[j].name = entries[i].name
                        /\ grid[k].name = entries[l].name
            /\ \A j \in 1..Len(grid) :
                  (grid[j].monograms = 1 /\ grid[j].bigrams = 1
                        /\ grid[j].trigrams = 2) =>
                     grid[j].monoPercent.value + grid[j].biPercent.value
                        + grid[j].triPercent.value = 1000

\* the grid rendered from four campaigns, two of them with a zero total: two
\* cards, the second for the campaign with counts 1, 1 and 2
C23_Witness ==
    /\ analyticsData # Null
    /\ analyticsView.content
    /\ "campaignDetails" \in DOMAIN analyticsData[1]
    /\ Len(analyticsData[1].campaignDetails) = 4
    /\ Len(analyticsView.grid) = 2
    /\ analyticsView.grid[1].name = "m"
    /\ analyticsView.grid[2].name = "c5"
    /\ analyticsView.grid[2].monoPercent = [kind |-> "fixed1", value |-> 250]
    /\ analyticsView.grid[2].triPercent = [kind |-> "fixed1", value |-> 500]

\* C24: the campaign-breakdown table holds exactly one row per entry of
\* campaignDetails, in order, with a missing detail field shown as 0, when
\* that map is present and not empty; otherwise exactly one row per name in
\* campaigns with a '-' in every other column.  The table holds no other
\* row: none of a previous render remains.
C24_BreakdownTable ==
    (analyticsData # Null /\ analyticsView.content) =>
        LET data == analyticsData[1]
            details == IF "campaignDetails" \in DOMAIN data
                       THEN data.campaignDetails ELSE <<>>
            names == IF "campaigns" \in DOMAIN data
                     THEN data.campaigns ELSE <<>>
            Field(entry, key) ==
                IF key \in DOMAIN entry.data THEN entry.data[key] ELSE 0
            table == analyticsView.table
        IN  IF Len(details) > 0
            THEN /\ Len(table) = Len(details)
                 /\ \A i \in 1..Len(details) :
                       /\ table[i].name = details[i].name
                       /\ table[i].cells =
                            << [kind |-> "number",
                                value |-> Field(details[i], "monograms")],
                               [kind |-> "number",
                                value |-> Field(details[i], "bigrams")],
                               [kind |-> "number",
                                value |-> Field(details[i], "trigrams")],
                               [kind |-> "number",
                                value |-> Field(details[i], "search_terms")],
                               [kind |-> "currency",
                                value |-> Field(details[i], "spend")],
                               [kind |-> "currency",
                                value |-> Field(details[i], "sales")] >>
            ELSE /\ Len(table) = Len(names)
                 /\ \A i \in 1..Len(names) :
                       /\ table[i].name = names[i]
                       /\ \A k \in 1..6 : table[i].cells[k] = Dash

\* an archive with two campaign names and no details is shown: two rows of
\* placeholders and nothing else
C24_Witness ==
    /\ analyticsData # Null
    /\ analyticsView.content
    /\ analyticsData[1].campaigns = <<"c3", "c4">>
    /\ analyticsData[1].campaignDetails = EmptyObject
    /\ Len(analyticsView.grid) = 0
    /\ Len(analyticsView.table) = 2
    /\ analyticsView.table[2].name = "c4"
    /\ analyticsView.table[2].cells[1] = Dash

\* C25: every POST /upload carries a file whose name ends in '.csv' in any
\* letter case and whose size is at most 52,428,800 bytes, and it is the
\* selected file; selectedFile never holds a file that fails either test.
C25_OnlyValidFilesSent ==
    [][/\ \A i \in 1..Len(uploads') :
             /\ uploads'[i].name \in CsvNames
             /\ uploads'[i].size <= 52428800
       /\ selectedFile' # Null =>
             /\ selectedFile'[1].name \in CsvNames
             /\ selectedFile'[1].size <= 52428800
       /\ Len(uploads') > Len(uploads) =>
             /\ selectedFile # Null
             /\ uploads' = Append(uploads, selectedFile[1])]_vars

\* a file was rejected for its size while the POST /upload of the selected
\* file is in flight
C25_Witness ==
    /\ Len(uploads) > 0
    /\ uploads[1].name \in CsvNames
    /\ selectedFile # Null
    /\ last = [op |-> "handleFile", out |-> "too-big"]

\* C26: the summary of every POST /archive body is the snapshot made from
\* the successful /upload answer that produced the filename of the body: its
\* campaigns, its campaign details and its summary fields are those of that
\* answer.
C26_ArchiveBodyConsistent ==
    \A i \in 1..Len(archives) :
        \E result \in UploadAnswers :
            /\ result.success
            /\ archives[i].filename = result.output_file
            /\ "campaigns" \in DOMAIN archives[i].summary
            /\ archives[i].summary.campaigns = result.campaigns
            /\ "filename" \in DOMAIN archives[i].summary
            /\ result.summary # Null =>
                  \A key \in DOMAIN result.summary[1] :
                     /\ key \in DOMAIN archives[i].summary
                     /\ archives[i].summary[key] = result.summary[1][key]

\* C27: a successful answer to a POST /upload makes analyticsData a snapshot
\* whose filename is the name of the file sent in that request, and ends
\* with the results panel displayed, whatever happened to selectedFile while
\* the request was in flight.
C27_SnapshotOfSentFile ==
    [][\A i \in 1..Len(uploads) : \A result \in UploadAnswers :
          (result.success /\ UploadResponseOf(i, result)) =>
             /\ analyticsData' # Null
             /\ analyticsData'[1].filename = uploads[i].name
             /\ analyticsData'[1].campaigns = result.campaigns
             /\ Displayed(display') = {"results"}]_vars

\* C28: once every GET /archive issued has been answered, the archive view
\* shows the answer to the call issued last: its entries when it has some,
\* the placeholder otherwise.
C28_LatestFetchShown ==
    (\A k \in 1..Len(listFetches) : listFetches[k] # Null) =>
        LET result == listFetches[Len(listFetches)][1] IN
        IF result.success /\ result.archives # Null
              /\ Len(result.archives[1]) > 0
        THEN /\ archiveView.content
             /\ ~archiveView.empty
             /\ archiveView.list = result.archives[1]
        ELSE /\ archiveView.empty
             /\ ~archiveView.content

====
